---- MODULE Spec2Model ----
(***************************************************************************)
(* Model of src/index.js (org-audit-action): the CollectUserData class     *)
(* that walks the doubly paginated organization query (repositories, and   *)
(* within each repository its collaborators), merges every page into       *)
(* this.result, flattens the result into this.normalizedData and exports.  *)
(*                                                                         *)
(* The GraphQL endpoint (the Query Gateway) is the environment.  It is     *)
(* modelled as a positional store chosen in Init: per organization a list  *)
(* of repositories, each either queryable with a number of collaborator    *)
(* pages, archived (the call fails with ERROR_MESSAGE_ARCHIVED_REPO and    *)
(* carries partial data), or failing with some other error.  The query     *)
(* returns one repository per page (spec.md 4.1 step 4).                   *)
(*                                                                         *)
(* The actions follow the program from await to await.  The stretch that   *)
(* runs when a Gateway call settles is cut in three: requestOrganization-  *)
(* Data returns, collectData merges and decides, collectData is entered    *)
(* again and issues the next call.  Nothing else runs in between.          *)
(***************************************************************************)
EXTENDS Integers, Sequences, FiniteSets, TLC

\* ------------------------------------------------------------------ bounds
\* Repositories the Gateway holds, summed over the organizations of a run.
MaxRepos == 3
\* Collaborator pages of one repository.
MaxPages == 2
\* Collaborator edges on one full collaborator page.
PageSize == 1
\* Gateway calls of one run that the model follows (a traversal that never
\* ends is followed this far).
MaxCalls == 14

\* --------------------------------------------------------------- constants
\* The cursor value null ("start of collection"), index.js:116.
Null == -1
\* A parameter or property that was never given a value (undefined).
Undefined == -2
\* An input that is not configured (core.getInput gives '', the environment
\* gives undefined: both falsy), index.js:258-260.
NoInput == ""
\* Organization logins; "42" is a login that is a canonical array index.
Logins == {"acme", "42"}
\* The numeric value of the logins that are canonical array indices.
IndexLogins == {"42"}
IndexValue(login) == IF login = "42" THEN 42 ELSE 0
Enterprises == {"ent"}

VARIABLES
  organization,    \* input: the organization login or NoInput
  enterprise,      \* input: the enterprise login or NoInput
  entOrgs,         \* Gateway: the organizations of the enterprise
  world,           \* Gateway: login -> list of repositories
  pc,              \* where the program is
  organizations,   \* this.organizations (logins)
  idx,             \* position of the for-of loop of startCollection
  result,          \* this.result: login -> accumulator or null
  resultKeys,      \* the keys of this.result in insertion order
  normalizedData,  \* this.normalizedData
  args,            \* collectData's (collaboratorsCursor, repositoriesCursor)
  reqArgs,         \* requestOrganizationData's parameters of the call in flight
  data,            \* what requestOrganizationData returned to collectData
  endAttempt,      \* 0: endCollection not called, 1: called in try, 2: in catch
  failed,          \* core.setFailed was called
  outstanding,     \* Gateway calls in flight
  calls,           \* history: every Gateway call issued, in order
  pages,           \* history: every page the Gateway returned, in order
  finished,        \* history: logins whose collectData has returned
  configs,         \* history: configurations collectData was entered in
  normalizations,  \* history: number of normalizeResult executions
  exports,         \* history: number of export attempts begun
  run,             \* 1, or 2 in the second of two runs
  firstRun         \* what the first run's normalizeResult produced

vars == <<organization, enterprise, entOrgs, world, pc, organizations, idx,
          result, resultKeys, normalizedData, args, reqArgs, data, endAttempt,
          failed, outstanding, calls, pages, finished, configs,
          normalizations, exports, run, firstRun>>

env == <<organization, enterprise, entOrgs, world>>
hist == <<calls, pages, finished, configs, normalizations, exports>>

\* ----------------------------------------------------------------- Gateway
RepoLists(n) == [1..n -> [status : {"ok"}, pages : 0..MaxPages]
                         \cup [status : {"archived", "error"}, pages : {0}]]

\* Sequences over Logins without repetition.
OrgLists == {<<>>} \cup {<<a>> : a \in Logins}
            \cup {s \in Logins \X Logins : s[1] # s[2]}

RepoName(i) == i

\* The k-th collaborator edge of repository i.
Edge(i, k) ==
  [node |-> [name |-> <<"user", i, k>>, login |-> <<"login", i, k>>],
   permission |-> IF k % 2 = 1 THEN "admin" ELSE "read"]

\* The edges of collaborator page p of repository i.
PageEdges(i, p) == [k \in 1..PageSize |-> Edge(i, (p - 1) * PageSize + k)]

\* Where a cursor points: null (or a parameter left undefined) is the start.
CursorPos(cursor) == IF cursor < 0 THEN 0 ELSE cursor

NullData ==
  [kind |-> "null", nodes |-> <<>>, hasNextPage |-> FALSE, endCursor |-> Null]

\* The Gateway's answer to organizationQuery(org, collaboratorsCursor,
\* repositoriesCursor): the repository after the repository cursor with the
\* collaborator page after the collaborator cursor.
Gateway(org, collaboratorsCursor, repositoriesCursor) ==
  LET repos == world[org]
      pos == CursorPos(repositoriesCursor)
      i == pos + 1
      p == CursorPos(collaboratorsCursor) + 1
  IN IF pos >= Len(repos)
     THEN [kind |-> "ok", nodes |-> <<>>, hasNextPage |-> FALSE,
           endCursor |-> Null]
     ELSE CASE repos[i].status = "error" ->
                 [kind |-> "error", nodes |-> <<>>, hasNextPage |-> FALSE,
                  endCursor |-> Null]
            [] repos[i].status = "archived" ->
                 [kind |-> "archived",
                  nodes |-> <<[name |-> RepoName(i), edges |-> <<>>,
                               hasNextPage |-> FALSE, endCursor |-> Null]>>,
                  hasNextPage |-> i < Len(repos), endCursor |-> i]
            [] OTHER ->
                 [kind |-> "ok",
                  nodes |-> <<[name |-> RepoName(i),
                               edges |-> IF p <= repos[i].pages
                                         THEN PageEdges(i, p) ELSE <<>>,
                               hasNextPage |-> p < repos[i].pages,
                               endCursor |-> IF p <= repos[i].pages
                                             THEN p ELSE Null]>>,
                  hasNextPage |-> i < Len(repos), endCursor |-> i]

\* ------------------------------------------------------------------- Init
NullAccumulator == [isNull |-> TRUE, nodes |-> <<>>]

Init ==
  /\ organization \in Logins \cup {NoInput}
  /\ enterprise \in Enterprises \cup {NoInput}
  /\ organization # NoInput \/ enterprise # NoInput
  /\ entOrgs \in IF enterprise # NoInput /\ organization = NoInput
                 THEN OrgLists ELSE {<<>>}
  /\ \E n1 \in 0..MaxRepos :
       \E n2 \in 0..(MaxRepos - n1) :
         \E w1 \in RepoLists(n1), w2 \in RepoLists(n2) :
           LET orgs == IF organization # NoInput /\ enterprise # NoInput
                       THEN <<>>
                       ELSE IF organization # NoInput
                            THEN <<organization>> ELSE entOrgs
           IN /\ Len(orgs) < 1 => n1 = 0
              /\ Len(orgs) < 2 => n2 = 0
              /\ world = [o \in Logins |->
                           IF Len(orgs) >= 1 /\ o = orgs[1] THEN w1
                           ELSE IF Len(orgs) >= 2 /\ o = orgs[2] THEN w2
                           ELSE <<>>]
  /\ pc = "main"
  /\ organizations = <<>>
  /\ idx = 0
  /\ result = [o \in Logins |-> NullAccumulator]
  /\ resultKeys = <<>>
  /\ normalizedData = <<>>
  /\ args = [collaboratorsCursor |-> Undefined, repositoriesCursor |-> Undefined]
  /\ reqArgs = [collaboratorsCursor |-> Null, repositoriesCursor |-> Null]
  /\ data = NullData
  /\ endAttempt = 0
  /\ failed = FALSE
  /\ outstanding = 0
  /\ calls = <<>>
  /\ pages = <<>>
  /\ finished = <<>>
  /\ configs = {}
  /\ normalizations = 0
  /\ exports = 0
  /\ run = 1
  /\ firstRun = [done |-> FALSE, records |-> <<>>]

\* ------------------------------------------------- constructor and main
\* Mutant: the failure is reported but the process is not exited.
ValidateInputNoExit(org, ent) == FALSE

\* validateInput: TRUE when it reports the failure and exits the process.
ValidateInput(org, ent) == org # NoInput /\ ent # NoInput

\* this.result = options.data || {} (main passes no options.data): the
\* accumulators and the keys of the object.
ConstructedResult ==
  [acc |-> [o \in Logins |-> NullAccumulator], keys |-> <<>>]

\* Mutant: the constructor keeps the records that are already there.
StaleNormalizedData == normalizedData

\* this.normalizedData = []
ConstructedNormalizedData == <<>>

\* main: new CollectUserData(...), then Collector.startCollection() is called.
Main ==
  /\ pc = "main"
  /\ IF ValidateInput(organization, enterprise)
     THEN /\ failed' = TRUE
          /\ pc' = "exited"
          /\ UNCHANGED <<organizations, result, resultKeys, normalizedData>>
     ELSE /\ organizations' = <<organization>>
          /\ result' = ConstructedResult.acc
          /\ resultKeys' = ConstructedResult.keys
          /\ normalizedData' = ConstructedNormalizedData
          /\ pc' = "startCollection"
          /\ UNCHANGED failed
  /\ UNCHANGED <<env, idx, args, reqArgs, data, endAttempt, outstanding, hist,
                 run, firstRun>>

\* ---------------------------------------------------------- startCollection
EnterpriseCall ==
  [query |-> "enterprise", organization |-> enterprise,
   collaboratorsCursor |-> Null, repositoriesCursor |-> Null]

\* startCollection up to its first await: the enterprise query is issued, or
\* the for-of loop is entered.
StartCollection ==
  /\ pc = "startCollection"
  /\ IF enterprise # NoInput
     THEN /\ calls' = Append(calls, EnterpriseCall)
          /\ outstanding' = outstanding + 1
          /\ pc' = "requestEnterpriseData"
          /\ UNCHANGED idx
     ELSE /\ pc' = "forOf"
          /\ idx' = 1
          /\ UNCHANGED <<calls, outstanding>>
  /\ UNCHANGED <<env, organizations, result, resultKeys, normalizedData, args,
                 reqArgs, data, endAttempt, failed, pages, finished, configs,
                 normalizations, exports, run, firstRun>>

\* The enterprise query settles.  A rejection is outside the try block: it
\* leaves startCollection and main's promise rejects, nothing else runs.
RequestEnterpriseData ==
  /\ pc = "requestEnterpriseData"
  /\ outstanding' = outstanding - 1
  /\ \E ok \in BOOLEAN :
       IF ok
       THEN /\ organizations' = entOrgs
            /\ pc' = "forOf"
            /\ idx' = 1
       ELSE /\ pc' = "crashed"
            /\ UNCHANGED <<organizations, idx>>
  /\ UNCHANGED <<env, result, resultKeys, normalizedData, args, reqArgs, data,
                 endAttempt, failed, hist, run, firstRun>>

\* One step of for (const { login } of this.organizations): the next login is
\* reset to null and collectData(login) is called, or the loop is left and
\* endCollection is called.
ForOf ==
  /\ pc = "forOf"
  /\ IF idx <= Len(organizations)
     THEN LET login == organizations[idx]
          IN /\ result' = [result EXCEPT ![login] = NullAccumulator]
             /\ resultKeys' = IF \E k \in 1..Len(resultKeys) : resultKeys[k] = login
                              THEN resultKeys ELSE Append(resultKeys, login)
             /\ args' = [collaboratorsCursor |-> Undefined,
                         repositoriesCursor |-> Undefined]
             /\ pc' = "collectData"
             /\ UNCHANGED endAttempt
     ELSE /\ pc' = "endCollection"
          /\ endAttempt' = 1
          /\ UNCHANGED <<result, resultKeys, args>>
  /\ configs' = {}
  /\ UNCHANGED <<env, organizations, idx, normalizedData, reqArgs, data, failed,
                 outstanding, calls, pages, finished, normalizations, exports,
                 run, firstRun>>

\* ------------------------------------------------- requestOrganizationData
\* A default parameter: undefined becomes null.
Default(cursor) == IF cursor = Undefined THEN Null ELSE cursor

OrganizationCall(login, collaboratorsCursor, repositoriesCursor) ==
  [query |-> "organization", organization |-> login,
   collaboratorsCursor |-> collaboratorsCursor,
   repositoriesCursor |-> repositoriesCursor]

\* Mutant: every error is taken for the archived-repository error.
IsArchivedErrorAnyError(response) == response.kind # "ok"

\* error && error.message == ERROR_MESSAGE_ARCHIVED_REPO
IsArchivedError(response) == response.kind = "archived"

\* What the rest of a traversal depends on when collectData is entered
\* (besides the Gateway and the login): the two cursors, whether there is an
\* accumulator, whether it holds one repository, the name of its last
\* repository, and the previousCursor of the repository before the last.
\* Lines 208-253 read nothing else of this.result[organization]: the
\* previousCursor of the last repository is written before it is read.
Config ==
  LET acc == result[organizations[idx]]
      n == Len(acc.nodes)
  IN [args |-> args, isNull |-> acc.isNull, single |-> n = 1,
      last |-> IF n >= 1 THEN acc.nodes[n].name ELSE 0,
      previousCursor |-> IF n >= 2 THEN acc.nodes[n - 1].previousCursor
                         ELSE Undefined]

\* Mutant: the for-of loop does not await collectData; the query is issued
\* and the loop goes on to the next organization.
CollectDataNotAwaited ==
  /\ pc = "collectData"
  /\ Len(calls) < MaxCalls
  /\ configs' = configs \cup {Config}
  /\ LET login == organizations[idx]
         cc == Default(args.collaboratorsCursor)
         rc == Default(args.repositoriesCursor)
     IN /\ reqArgs' = [collaboratorsCursor |-> cc, repositoriesCursor |-> rc]
        /\ calls' = Append(calls, OrganizationCall(login, cc, rc))
  /\ outstanding' = outstanding + 1
  /\ pc' = "forOf"
  /\ idx' = idx + 1
  /\ UNCHANGED <<env, organizations, result, resultKeys, normalizedData,
                 args, data, endAttempt, failed, pages, finished,
                 normalizations, exports, run, firstRun>>

\* collectData is entered: it calls requestOrganizationData, which issues the
\* organization query.
CollectData ==
  /\ pc = "collectData"
  /\ Len(calls) < MaxCalls
  /\ configs' = configs \cup {Config}
  /\ LET login == organizations[idx]
         cc == Default(args.collaboratorsCursor)
         rc == Default(args.repositoriesCursor)
     IN /\ reqArgs' = [collaboratorsCursor |-> cc, repositoriesCursor |-> rc]
        /\ calls' = Append(calls, OrganizationCall(login, cc, rc))
  /\ outstanding' = outstanding + 1
  /\ pc' = "requestOrganizationData"
  /\ UNCHANGED <<env, organizations, idx, result, resultKeys, normalizedData,
                 args, data, endAttempt, failed, pages, finished,
                 normalizations, exports, run, firstRun>>

\* Mutant: any other error is thrown on; startCollection's catch block calls
\* endCollection.
Rethrow ==
  /\ outstanding' = outstanding - 1
  /\ pc' = "endCollection"
  /\ endAttempt' = 2
  /\ UNCHANGED <<data, reqArgs, calls, pages>>

\* Line 132: any other error makes requestOrganizationData return null.
ReturnNull ==
  /\ data' = NullData
  /\ outstanding' = outstanding - 1
  /\ pc' = "collectDataResume"
  /\ UNCHANGED <<reqArgs, calls, pages, endAttempt>>

\* Mutant: every retry goes one repository past the cursor collectData was
\* called with, whatever the latest error's partial data says.
RetryCursorsOfFirstCall(response) ==
  [collaboratorsCursor |-> Null,
   repositoriesCursor |-> CursorPos(Default(args.repositoriesCursor)) + 1]

\* Line 129: the cursors of the retry after the archived-repository error are
\* (null, error.data.organization.repositories.pageInfo.endCursor).
RetryCursors(response) ==
  [collaboratorsCursor |-> Null, repositoriesCursor |-> response.endCursor]

\* The organization query settles: the data is returned to collectData; the
\* archived-repository error re-issues the query after the repository page of
\* the error's partial data; any other error returns null.
RequestOrganizationData ==
  /\ pc = "requestOrganizationData"
  /\ LET login == organizations[idx]
         response == Gateway(login, reqArgs.collaboratorsCursor,
                             reqArgs.repositoriesCursor)
     IN IF response.kind = "ok"
        THEN /\ data' = response
             /\ pages' = Append(pages, [organization |-> login,
                                        nodes |-> response.nodes])
             /\ outstanding' = outstanding - 1
             /\ pc' = "collectDataResume"
             /\ UNCHANGED <<reqArgs, calls, endAttempt>>
        ELSE IF IsArchivedError(response)
        THEN /\ Len(calls) < MaxCalls
             /\ reqArgs' = RetryCursors(response)
             /\ calls' = Append(calls,
                   OrganizationCall(login,
                     RetryCursors(response).collaboratorsCursor,
                     RetryCursors(response).repositoriesCursor))
             /\ UNCHANGED <<data, pages, outstanding, pc, endAttempt>>
        ELSE ReturnNull
  /\ UNCHANGED <<env, organizations, idx, result, resultKeys, normalizedData,
                 args, failed, finished, configs, normalizations, exports,
                 run, firstRun>>

\* ------------------------------------------------------------- collectData
\* !data || !data.repositories.nodes.length
NoData(d) == d.kind = "null" \/ Len(d.nodes) = 0

\* A repository node of a response as it sits in the result: the same object,
\* which has no previousCursor property yet.
AsEntry(node) ==
  [name |-> node.name, edges |-> node.edges, hasNextPage |-> node.hasNextPage,
   endCursor |-> node.endCursor, previousCursor |-> Undefined]

\* let result = this.result[organization] ? this.result[organization] : data
\* (the repository nodes of it).  With no accumulator yet, result is the
\* response itself, so its last repository is the response's repository.
ResultOrData(acc, d) ==
  IF ~acc.isNull THEN acc.nodes ELSE <<AsEntry(d.nodes[1])>>

\* Mutant: a continuation replaces the edges of the last entry by the edges
\* of the page.
MergeLastPage(acc, d, repositoriesCursor) ==
  LET nodes == ResultOrData(acc, d)
      currentRepository == d.nodes[1]
      repositoriesInResult == Len(nodes)
      lastRepositoryInResult == nodes[repositoriesInResult]
  IN IF currentRepository.name = lastRepositoryInResult.name
     THEN [nodes EXCEPT ![repositoriesInResult].edges = currentRepository.edges]
     ELSE Append([nodes EXCEPT ![repositoriesInResult].previousCursor =
                                 repositoriesCursor],
                 AsEntry(currentRepository))

\* Lines 205-227: the repository nodes of the result after the response d has
\* been merged by a collectData called with repositoriesCursor.  On the first
\* merge lastRepositoryInResult and currentRepository are one object (result
\* is data), so the names are equal and the edges are spread twice.
Merge(acc, d, repositoriesCursor) ==
  LET nodes == ResultOrData(acc, d)
      currentRepository == d.nodes[1]
      repositoriesInResult == Len(nodes)
      lastRepositoryInResult == nodes[repositoriesInResult]
  IN IF currentRepository.name = lastRepositoryInResult.name
     THEN [nodes EXCEPT ![repositoriesInResult].edges =
             lastRepositoryInResult.edges \o currentRepository.edges]
     ELSE Append([nodes EXCEPT ![repositoriesInResult].previousCursor =
                    repositoriesCursor],
                 AsEntry(currentRepository))

\* Lines 230-235: the repository cursor of the call for the next collaborator
\* page; repositoriesInResult was read before the merge, nodes is the merged
\* sequence.
RepoStartCursor(nodes, repositoriesInResult) ==
  IF repositoriesInResult = 1
  THEN Null
  ELSE nodes[repositoriesInResult - 1].previousCursor

\* Mutant: with no data collectData throws; startCollection's catch block
\* calls endCollection.
NoDataThrows ==
  /\ pc' = "endCollection"
  /\ endAttempt' = 2
  /\ UNCHANGED <<finished, idx, result, args>>

\* Mutant: with no data collectData clears the organization's result before
\* it returns.
NoDataResets ==
  /\ finished' = Append(finished, organizations[idx])
  /\ pc' = "forOf"
  /\ idx' = idx + 1
  /\ result' = [result EXCEPT ![organizations[idx]] = NullAccumulator]
  /\ UNCHANGED <<args, endAttempt>>

\* Lines 200-203: with no data collectData logs and returns, and the for-of
\* loop goes on.
NoDataReturn ==
  /\ finished' = Append(finished, organizations[idx])
  /\ pc' = "forOf"
  /\ idx' = idx + 1
  /\ UNCHANGED <<result, args, endAttempt>>

\* Mutant: the repository page's hasNextPage is tested first.
NextRequestRepositoriesFirst(collaboratorsPage, repositoriesPage) ==
  IF repositoriesPage.hasNextPage THEN "repositories"
  ELSE IF collaboratorsPage.hasNextPage THEN "collaborators"
  ELSE "return"

\* Lines 229, 244 and 253: the collaborator page's hasNextPage is tested
\* first, then the repository page's, and otherwise collectData returns.
NextRequest(collaboratorsPage, repositoriesPage) ==
  IF collaboratorsPage.hasNextPage THEN "collaborators"
  ELSE IF repositoriesPage.hasNextPage THEN "repositories"
  ELSE "return"

\* collectData after its await: no data returns; otherwise the response is
\* merged and collectData is called for the next collaborator page, for the
\* next repository, or returns.  A return unwinds every pending collectData
\* (each only returns after its own recursive call) back to the for-of loop.
CollectDataResume ==
  /\ pc = "collectDataResume"
  /\ LET login == organizations[idx]
     IN IF NoData(data)
        THEN NoDataReturn
        ELSE LET repositoriesInResult == Len(ResultOrData(result[login], data))
                 nodes == Merge(result[login], data, args.repositoriesCursor)
                 collaboratorsPage == data.nodes[1]
             IN /\ result' = [result EXCEPT
                                ![login] = [isNull |-> FALSE, nodes |-> nodes]]
                /\ UNCHANGED endAttempt
                /\ IF NextRequest(collaboratorsPage, data) = "collaborators"
                   THEN /\ args' = [collaboratorsCursor |->
                                      collaboratorsPage.endCursor,
                                    repositoriesCursor |->
                                      RepoStartCursor(nodes, repositoriesInResult)]
                        /\ pc' = "collectData"
                        /\ UNCHANGED <<finished, idx>>
                   ELSE IF NextRequest(collaboratorsPage, data) = "repositories"
                   THEN /\ args' = [collaboratorsCursor |-> Null,
                                    repositoriesCursor |-> data.endCursor]
                        /\ pc' = "collectData"
                        /\ UNCHANGED <<finished, idx>>
                   ELSE /\ finished' = Append(finished, login)
                        /\ pc' = "forOf"
                        /\ idx' = idx + 1
                        /\ UNCHANGED args
  /\ UNCHANGED <<env, organizations, resultKeys, normalizedData, reqArgs, data,
                 failed, outstanding, calls, pages, configs, normalizations,
                 exports, run, firstRun>>

\* --------------------------------------------------------- normalizeResult
RECURSIVE SortedIndexKeys(_)
\* The keys of S that are canonical array indices, in ascending numeric order.
SortedIndexKeys(S) ==
  IF S = {} THEN <<>>
  ELSE LET least == CHOOSE k \in S : \A j \in S : IndexValue(k) <= IndexValue(j)
       IN <<least>> \o SortedIndexKeys(S \ {least})

IsIndexKey(key) == key \in IndexLogins
IsStringKey(key) == key \notin IndexLogins

\* Object.keys(this.result): the keys that are canonical array indices in
\* ascending numeric order, then the other keys in insertion order.
ObjectKeys(keys) ==
  SortedIndexKeys({keys[k] : k \in {j \in 1..Len(keys) : IsIndexKey(keys[j])}})
    \o SelectSeq(keys, IsStringKey)

\* The records of one repository entry (lines 184-193).
RepositoryRecords(org, repository) ==
  [k \in 1..Len(repository.edges) |->
     <<enterprise, org, repository.name, repository.edges[k].node.name,
       repository.edges[k].node.login, repository.edges[k].permission>>]

RECURSIVE NodesRecords(_, _)
NodesRecords(org, nodes) ==
  IF nodes = <<>> THEN <<>>
  ELSE RepositoryRecords(org, Head(nodes)) \o NodesRecords(org, Tail(nodes))

\* The records of one organization (lines 176-194): none for a null
\* accumulator.
OrganizationRecords(acc, org) ==
  IF acc[org].isNull THEN <<>> ELSE NodesRecords(org, acc[org].nodes)

RECURSIVE KeysRecords(_, _)
KeysRecords(acc, keys) ==
  IF keys = <<>> THEN <<>>
  ELSE OrganizationRecords(acc, Head(keys)) \o KeysRecords(acc, Tail(keys))

\* What normalizeResult pushes onto this.normalizedData.
NormalizeResult(acc, keys) == KeysRecords(acc, ObjectKeys(keys))

\* ----------------------------------------------------------- endCollection
\* endCollection up to its first await: normalizeResult runs, the export
\* begins.
EndCollection ==
  /\ pc = "endCollection"
  /\ normalizedData' = normalizedData \o NormalizeResult(result, resultKeys)
  /\ normalizations' = normalizations + 1
  /\ firstRun' = IF run = 1 /\ normalizations = 0
                 THEN [done |-> TRUE, records |-> normalizedData']
                 ELSE firstRun
  /\ exports' = exports + 1
  /\ pc' = "export"
  /\ UNCHANGED <<env, organizations, idx, result, resultKeys, args, reqArgs,
                 data, endAttempt, failed, outstanding, calls, pages, finished,
                 configs, run>>

\* The export (the two file writes, the artifact upload, the issue post)
\* settles.  When all succeed the process exits.  A failure under the try
\* block is caught and endCollection is called again; a failure under the
\* catch block rejects startCollection.
Export ==
  /\ pc = "export"
  /\ \E ok \in BOOLEAN :
       IF ok
       THEN /\ pc' = "exited"
            /\ UNCHANGED endAttempt
       ELSE IF endAttempt = 1
       THEN /\ pc' = "endCollection"
            /\ endAttempt' = 2
       ELSE /\ pc' = "crashed"
            /\ UNCHANGED endAttempt
  /\ UNCHANGED <<env, organizations, idx, result, resultKeys, normalizedData,
                 args, reqArgs, data, failed, outstanding, hist, run, firstRun>>

\* ------------------------------------------------------------ specification
Next ==
  \/ Main
  \/ StartCollection
  \/ RequestEnterpriseData
  \/ ForOf
  \/ CollectData
  \/ RequestOrganizationData
  \/ CollectDataResume
  \/ EndCollection
  \/ Export

Spec == Init /\ [][Next]_vars

\* The program keeps running: a step that can be taken is taken.
FairSpec == Spec /\ WF_vars(Next)

\* A second run after the first has ended: main is called again against the
\* same Gateway; the history of the run starts over.
Rerun ==
  /\ pc \in {"exited", "crashed"}
  /\ run = 1
  /\ run' = 2
  /\ pc' = "main"
  /\ idx' = 0
  /\ endAttempt' = 0
  /\ failed' = FALSE
  /\ calls' = <<>>
  /\ pages' = <<>>
  /\ finished' = <<>>
  /\ configs' = {}
  /\ normalizations' = 0
  /\ exports' = 0
  /\ UNCHANGED <<env, organizations, result, resultKeys, normalizedData, args,
                 reqArgs, data, outstanding, firstRun>>

NextRerun == Next \/ Rerun

SpecRerun == Init /\ [][NextRerun]_vars

\* ------------------------------------------------------------------ claims
InFinished(o) == \E k \in 1..Len(finished) : finished[k] = o

\* Every repository of the organization is queryable.
WellBehaved(o) == \A i \in 1..Len(world[o]) : world[o][i].status = "ok"

NoOtherError(o) == \A i \in 1..Len(world[o]) : world[o][i].status # "error"

RECURSIVE ReturnedEdges(_, _, _)
\* The collaborator edges the pages of log returned for repository name of
\* organization o, in the order of the calls.
ReturnedEdges(log, o, name) ==
  IF log = <<>> THEN <<>>
  ELSE (IF Head(log).organization = o /\ Head(log).nodes # <<>>
           /\ Head(log).nodes[1].name = name
        THEN Head(log).nodes[1].edges ELSE <<>>)
       \o ReturnedEdges(Tail(log), o, name)

RECURSIVE EdgesNamed(_, _)
\* The collaborator edges of the entries of nodes that are named name.
EdgesNamed(nodes, name) ==
  IF nodes = <<>> THEN <<>>
  ELSE (IF Head(nodes).name = name THEN Head(nodes).edges ELSE <<>>)
       \o EdgesNamed(Tail(nodes), name)

NoDuplicates(seq) == \A a, b \in 1..Len(seq) : seq[a] = seq[b] => a = b

\* C1: once collectData has finished for an organization whose calls all
\* succeeded and returned a repository, every repository entry of the result
\* holds exactly the edges the Gateway returned for that repository, in the
\* order of the calls, each once.
C1_CollaboratorsConcatenated ==
  \A o \in Logins :
    (InFinished(o) /\ WellBehaved(o) /\ world[o] # <<>>) =>
      /\ ~result[o].isNull
      /\ \A k \in 1..Len(result[o].nodes) :
           result[o].nodes[k].edges =
             ReturnedEdges(pages, o, result[o].nodes[k].name)

\* C2: every call that met the archived-repository error is followed by a
\* call with a null collaborator cursor and the repository cursor after the
\* archived repository; and once collectData has finished for an
\* organization that met no other error, the result has no collaborator of an
\* archived repository, has every queryable repository, and holds no
\* collaborator of the repository after an archived one twice.
C2_ForcedSkip ==
  /\ \A k \in 1..Len(calls) :
       LET c == calls[k]
           i == CursorPos(c.repositoriesCursor) + 1
       IN (c.query = "organization" /\ i <= Len(world[c.organization])
             /\ world[c.organization][i].status = "archived"
             /\ k < Len(calls)) =>
            calls[k + 1] = OrganizationCall(c.organization, Null, i)
  /\ \A o \in Logins :
       (InFinished(o) /\ NoOtherError(o)) =>
         \A i \in 1..Len(world[o]) :
           IF world[o][i].status = "archived"
           THEN /\ EdgesNamed(result[o].nodes, RepoName(i)) = <<>>
                /\ (i < Len(world[o]) /\ world[o][i + 1].status = "ok") =>
                     NoDuplicates(EdgesNamed(result[o].nodes, RepoName(i + 1)))
           ELSE \E k \in 1..Len(result[o].nodes) :
                  result[o].nodes[k].name = RepoName(i)

\* A Gateway call is about to fail with an error other than the
\* archived-repository error.
OtherErrorResponse ==
  /\ pc = "requestOrganizationData"
  /\ Gateway(organizations[idx], reqArgs.collaboratorsCursor,
             reqArgs.repositoriesCursor).kind = "error"

\* C3: a Gateway call that fails with another error is not retried (no call
\* follows it), collectData returns with this.result as it was before the
\* call, and the for-of loop goes on with the next organization.
C3_OtherErrorStops ==
  [][/\ OtherErrorResponse =>
          /\ calls' = calls
          /\ result' = result
          /\ pc' = "collectDataResume"
          /\ data'.kind = "null"
     /\ (pc = "collectDataResume" /\ data.kind = "null") =>
          /\ calls' = calls
          /\ result' = result
          /\ pc' = "forOf"
          /\ idx' = idx + 1
     /\ (pc = "forOf" /\ idx <= Len(organizations)) =>
          /\ pc' = "collectData"
          /\ idx' = idx]_vars

\* C3 witness: the first organization failed on its second repository after
\* the first was merged, its result is kept, and the call for the second
\* organization is in flight.
C3_Witness ==
  /\ pc = "requestOrganizationData"
  /\ idx = 2
  /\ Len(world[organizations[1]]) >= 2
  /\ world[organizations[1]][2].status = "error"
  /\ ~result[organizations[1]].isNull
  /\ finished = <<organizations[1]>>

\* The records of normalizedData that belong to organization o.
RecordsOf(o) == SelectSeq(normalizedData, LAMBDA record : record[2] = o)

\* The first call for an organization returned zero repositories.
EmptyFirstResponse ==
  /\ pc = "collectDataResume"
  /\ args.repositoriesCursor = Undefined
  /\ data.kind = "ok"
  /\ data.nodes = <<>>

\* C4: when the first call for an organization returns zero repositories,
\* collectData returns without an error, the result of the organization stays
\* null, the for-of loop goes on, and normalizedData never holds a record of
\* that organization.
C4_EmptyOrganization ==
  /\ [](\A o \in Logins :
          (InFinished(o) /\ world[o] = <<>>) =>
            /\ result[o].isNull
            /\ RecordsOf(o) = <<>>
            /\ ~failed)
  /\ [][EmptyFirstResponse =>
          /\ result' = result
          /\ result[organizations[idx]].isNull
          /\ calls' = calls
          /\ pc' = "forOf"
          /\ idx' = idx + 1]_vars

\* C4 witness: the first of two organizations had no repository, the second
\* was collected, and the run has exported the records of the second.
C4_Witness ==
  /\ pc = "exited"
  /\ Len(organizations) = 2
  /\ world[organizations[1]] = <<>>
  /\ finished = organizations
  /\ normalizations = 1
  /\ Len(normalizedData) >= 1

\* C5: in a traversal against a well-behaved Gateway, collectData is never
\* entered twice in the same configuration.  The traversal is deterministic
\* and Config is all it depends on, so a configuration that comes back comes
\* back forever: the traversal terminates exactly when none does.
C5_Terminates ==
  (pc = "collectData" /\ WellBehaved(organizations[idx])) =>
    Config \notin configs

\* C5 as a liveness property: every traversal against a well-behaved Gateway
\* that has begun is finished at some time.
C5_EventuallyFinished ==
  \A o \in Logins :
    (pc = "collectData" /\ organizations[idx] = o /\ WellBehaved(o))
      ~> InFinished(o)

HasCall(o) ==
  \E k \in 1..Len(calls) :
    calls[k].query = "organization" /\ calls[k].organization = o

\* C6: whenever endCollection has been called (so whenever normalizeResult
\* has run or an export has begun), collectData has been called and has
\* returned for every organization of the list, in the order of the list.
C6_ExportAfterAllOrganizations ==
  (endAttempt >= 1 \/ normalizations >= 1 \/ exports >= 1) =>
    /\ finished = organizations
    /\ \A k \in 1..Len(organizations) : HasCall(organizations[k])

\* C6 witness: the export has begun after the traversals of two
\* organizations: the first hit a Gateway error, the second succeeded.
C6_Witness ==
  /\ pc = "export"
  /\ Len(organizations) = 2
  /\ \E i \in 1..Len(world[organizations[1]]) :
       world[organizations[1]][i].status = "error"
  /\ WellBehaved(organizations[2])
  /\ ~result[organizations[2]].isNull

\* C7: normalizeResult runs at most once in a run, and normalizedData holds
\* the records of the collected state once.
C7_NormalizedOnce ==
  /\ normalizations <= 1
  /\ normalizations = 1 => normalizedData = NormalizeResult(result, resultKeys)

\* C8: after normalizeResult has run, normalizedData holds one record per
\* collaborator edge of the accumulated state, by organization in processing
\* order, then by repository, then by collaborator; an organization with a
\* null accumulator has no record.
C8_RecordOrder ==
  (pc = "export" /\ normalizations = 1) =>
    normalizedData = KeysRecords(result, organizations)

\* C9: when both an organization and an enterprise are configured, the run
\* issues no Gateway call and begins no normalization or export: after main
\* it is reported as failed and has exited.
C9_MutuallyExclusive ==
  (organization # NoInput /\ enterprise # NoInput) =>
    /\ calls = <<>>
    /\ outstanding = 0
    /\ normalizations = 0
    /\ exports = 0
    /\ pc # "main" => (failed /\ pc = "exited")

\* C9 witness: both inputs were configured and main has run.
C9_Witness ==
  /\ organization # NoInput
  /\ enterprise # NoInput
  /\ failed
  /\ pc = "exited"

\* C10: in a second run from a fresh state against the same Gateway,
\* normalizeResult produces the record sequence it produced in the first run.
C10_SameRecords ==
  (run = 2 /\ pc = "export" /\ normalizations = 1 /\ firstRun.done) =>
    normalizedData = firstRun.records

\* C10 witness: the second run has normalized the result of two
\* organizations and its records are those of the first run.
C10_Witness ==
  /\ run = 2
  /\ pc = "export"
  /\ normalizations = 1
  /\ firstRun.done
  /\ Len(organizations) = 2
  /\ Len(RecordsOf(organizations[1])) >= 1
  /\ Len(RecordsOf(organizations[2])) >= 1
  /\ normalizedData = firstRun.records


\* A response with a repository is about to be merged by collectData.
MergeStep == pc = "collectDataResume" /\ ~NoData(data)

\* The merge is about to append the response's repository as a new entry.
NewRepositoryStep ==
  /\ MergeStep
  /\ ~result[organizations[idx]].isNull
  /\ LET nodes == result[organizations[idx]].nodes
     IN data.nodes[1].name # nodes[Len(nodes)].name

\* C11: when the collaborator page just merged reports a next page, the next
\* call of collectData gets that page's collaborator endCursor, and as
\* repository cursor null when the current repository is the first entry of
\* the merged sequence and otherwise the previousCursor of the entry just
\* before the current one, whether the page continued the last entry or was
\* appended as a new entry.
C11_SameRepositoryCursor ==
  [][(MergeStep /\ data.nodes[1].hasNextPage) =>
       LET nodes == result'[organizations[idx]].nodes
           current == Len(nodes)
       IN /\ pc' = "collectData"
          /\ args'.collaboratorsCursor = data.nodes[1].endCursor
          /\ args'.repositoriesCursor =
               IF current = 1 THEN Null
               ELSE nodes[current - 1].previousCursor]_vars

\* C12: when the merge appends a new entry, the previousCursor it records on
\* the entry that was last is the repository cursor of the Gateway call that
\* returned the new repository, also when that call was the retry after the
\* archived-repository error.
C12_PreviousCursorOfCall ==
  [][NewRepositoryStep =>
       LET last == Len(result[organizations[idx]].nodes)
       IN result'[organizations[idx]].nodes[last].previousCursor
            = reqArgs.repositoriesCursor]_vars

\* Every collaborator edge of every page of the entry's repository is in the
\* entry.
Drained(o, entry) ==
  \A p \in 1..world[o][entry.name].pages :
    \A k \in 1..PageSize :
      \E e \in 1..Len(entry.edges) : entry.edges[e] = PageEdges(entry.name, p)[k]

\* C13: for an organization whose repositories are all queryable, in every
\* state each repository name occurs at most once in the entries of the
\* result, and every entry but the last holds all its collaborator pages.
C13_OneEntryPerRepository ==
  \A o \in Logins :
    WellBehaved(o) =>
      LET nodes == result[o].nodes
      IN /\ NoDuplicates([k \in 1..Len(nodes) |-> nodes[k].name])
         /\ \A k \in 1..(Len(nodes) - 1) : Drained(o, nodes[k])


\* The organization queries issued so far for organization o.
CallsOf(o) ==
  SelectSeq(calls, LAMBDA call :
                     call.query = "organization" /\ call.organization = o)

\* collectData is about to issue the query for the next repository: a null
\* collaborator cursor and a repository cursor.
AdvanceCall ==
  /\ pc = "collectData"
  /\ args.collaboratorsCursor = Null
  /\ Default(args.repositoriesCursor) # Null

\* C14: collectData issues the query with a null collaborator cursor and the
\* repository page's endCursor only after a response of this organization
\* whose collaborator page has no next page and whose repository page has
\* one; a response with no next page of either kind ends collectData for the
\* organization with the merged result and no further query is issued for it.
C14_AdvanceOnlyWhenDrained ==
  [][/\ (AdvanceCall /\ calls' # calls) =>
          /\ calls' = Append(calls, OrganizationCall(organizations[idx], Null,
                                                     data.endCursor))
          /\ data.kind = "ok"
          /\ data.nodes # <<>>
          /\ ~data.nodes[1].hasNextPage
          /\ data.hasNextPage
          /\ pages # <<>>
          /\ pages[Len(pages)] = [organization |-> organizations[idx],
                                  nodes |-> data.nodes]
     /\ (MergeStep /\ ~data.nodes[1].hasNextPage /\ ~data.hasNextPage) =>
          /\ pc' = "forOf"
          /\ idx' = idx + 1
          /\ finished' = Append(finished, organizations[idx])
          /\ calls' = calls
          /\ ~result'[organizations[idx]].isNull
     /\ \A o \in Logins : InFinished(o) => CallsOf(o)' = CallsOf(o)]_vars

\* collectData has returned for an organization of queryable repositories
\* after a query for the next repository and a last response with no next
\* page, and another organization is being queried.
C14_Witness ==
  /\ Len(organizations) = 2
  /\ idx = 2
  /\ pc = "collectDataResume"
  /\ InFinished(organizations[1])
  /\ WellBehaved(organizations[1])
  /\ Len(result[organizations[1]].nodes) = 2
  /\ \E k \in 1..Len(calls) :
       calls[k] = OrganizationCall(organizations[1], Null, 1)


\* Sequence s is a prefix of sequence t.
IsPrefix(s, t) == Len(s) <= Len(t) /\ \A k \in 1..Len(s) : s[k] = t[k]

\* C15: a merge step of collectData keeps every entry of the organization's
\* result in place and each entry's collaborators as a prefix of what they
\* become: appending a new entry changes the collaborators of no existing
\* entry, a continuation changes only the last entry, by appending; and the
\* step leaves the result of every other organization as it was.
C15_AccumulatorGrows ==
  [][MergeStep =>
       LET login == organizations[idx]
           old == result[login].nodes
           new == result'[login].nodes
       IN /\ \A o \in Logins \ {login} : result'[o] = result[o]
          /\ Len(old) <= Len(new)
          /\ \A k \in 1..Len(old) :
               /\ new[k].name = old[k].name
               /\ IsPrefix(old[k].edges, new[k].edges)
          /\ NewRepositoryStep =>
               /\ Len(new) = Len(old) + 1
               /\ \A k \in 1..Len(old) : new[k].edges = old[k].edges
          /\ (~NewRepositoryStep /\ old # <<>>) =>
               /\ Len(new) = Len(old)
               /\ \A k \in 1..(Len(old) - 1) : new[k] = old[k]
               /\ new[Len(old)].edges
                    = old[Len(old)].edges \o data.nodes[1].edges]_vars

\* collectData has returned for two organizations; the second one's result
\* has a first entry continued by a second collaborator page and a newly
\* appended second entry, and the first one's result holds an entry.
C15_Witness ==
  /\ Len(organizations) = 2
  /\ finished = organizations
  /\ Len(result[organizations[1]].nodes) = 1
  /\ Len(result[organizations[2]].nodes) = 2
  /\ Len(result[organizations[2]].nodes[1].edges) > 2 * PageSize


\* C16: at most one Gateway query is outstanding in any state, and an
\* organization has been queried only if collectData has returned for every
\* organization before it in the list.
C16_OneCallAtATime ==
  /\ outstanding <= 1
  /\ (outstanding = 1) <=> (pc \in {"requestEnterpriseData",
                                   "requestOrganizationData"})
  /\ \A j \in 1..Len(organizations) :
       HasCall(organizations[j]) =>
         \A i \in 1..(j - 1) : InFinished(organizations[i])

\* The query of the second organization of an enterprise is outstanding, after
\* several queries for the first organization.
C16_Witness ==
  /\ enterprise # NoInput
  /\ Len(organizations) = 2
  /\ idx = 2
  /\ pc = "requestOrganizationData"
  /\ outstanding = 1
  /\ Len(CallsOf(organizations[1])) >= 2
  /\ HasCall(organizations[2])


\* The last repository of organization o is the archived one.
LastArchived(o) ==
  world[o] # <<>> /\ world[o][Len(world[o])].status = "archived"

\* The retry after the archived-repository error on the last repository has
\* returned zero repositories to collectData.
SkipAtEnd ==
  /\ pc = "collectDataResume"
  /\ LastArchived(organizations[idx])
  /\ reqArgs.repositoriesCursor # Default(args.repositoriesCursor)
  /\ reqArgs.repositoriesCursor = Len(world[organizations[idx]])
  /\ data.kind = "ok"
  /\ data.nodes = <<>>

\* C17: when the archived repository is the last one, the retry returns zero
\* repositories and collectData returns without an error and without a
\* further query; the result of the organization is left as it was, stays so
\* once collectData has returned, and normalizeResult emits its records.
C17_SkipAtEndKeepsResult ==
  [][/\ SkipAtEnd =>
          /\ result' = result
          /\ calls' = calls
          /\ pc' = "forOf"
          /\ idx' = idx + 1
          /\ finished' = Append(finished, organizations[idx])
          /\ endAttempt' = endAttempt
          /\ failed' = failed
     /\ \A o \in Logins :
          (InFinished(o) /\ LastArchived(o)) =>
            /\ result'[o] = result[o]
            /\ (pc = "endCollection" /\ normalizations = 0) =>
                 RecordsOf(o)' = OrganizationRecords(result, o)]_vars

\* The run has normalized the result of an organization whose last repository
\* is the archived one and whose earlier repositories were merged: the
\* records hold the collaborators of the first repository.
C17_Witness ==
  /\ pc = "export"
  /\ normalizations = 1
  /\ \E o \in Logins :
       /\ InFinished(o)
       /\ LastArchived(o)
       /\ Len(world[o]) = 3
       /\ Len(result[o].nodes) = 2
       /\ Len(result[o].nodes[1].edges) >= 1
       /\ Len(RecordsOf(o)) >= 1
       /\ \E k \in 1..Len(calls) : calls[k] = OrganizationCall(o, Null, 3)


\* What the Gateway answers to the outstanding organization query.
Response ==
  Gateway(organizations[idx], reqArgs.collaboratorsCursor,
          reqArgs.repositoriesCursor)

\* The outstanding organization query is a retry of requestOrganizationData,
\* not the query collectData asked for.
IsRetry ==
  /\ pc = "requestOrganizationData"
  /\ reqArgs.repositoriesCursor # Default(args.repositoriesCursor)

\* C18: inside one request, every archived-repository error is followed by
\* one retry with a null collaborator cursor and the endCursor of that error's
\* partial data, nothing else changing; the response handed to collectData is
\* the page of the first queryable repository after the archived ones, reached
\* by one query per archived repository; and a retry that fails with another
\* error hands null to collectData, which returns with the result as it was.
C18_ChainedSkips ==
  [][/\ (pc = "requestOrganizationData" /\ Response.kind = "archived") =>
          /\ calls' = Append(calls, OrganizationCall(organizations[idx], Null,
                                                     Response.endCursor))
          /\ reqArgs' = [collaboratorsCursor |-> Null,
                         repositoriesCursor |-> Response.endCursor]
          /\ pc' = pc
          /\ UNCHANGED <<args, data, result, pages, outstanding, finished, idx>>
     /\ (pc = "requestOrganizationData" /\ Response.kind = "ok"
           /\ Response.nodes # <<>>) =>
          LET repos == world[organizations[idx]]
              first == CursorPos(Default(args.repositoriesCursor)) + 1
              returned == Response.nodes[1].name
          IN /\ data' = Response
             /\ pc' = "collectDataResume"
             /\ calls' = calls
             /\ returned >= first
             /\ repos[returned].status = "ok"
             /\ \A i \in first..(returned - 1) :
                  /\ repos[i].status = "archived"
                  /\ calls[Len(calls) - (returned - 1 - i)]
                       = OrganizationCall(organizations[idx], Null, i)
             /\ calls[Len(calls) - (returned - first)]
                  = OrganizationCall(organizations[idx],
                                     Default(args.collaboratorsCursor),
                                     Default(args.repositoriesCursor))
     /\ (IsRetry /\ Response.kind = "error") =>
          /\ data'.kind = "null"
          /\ pc' = "collectDataResume"
          /\ UNCHANGED <<calls, result>>
     /\ (pc = "collectDataResume" /\ data.kind = "null") =>
          /\ pc' = "forOf"
          /\ idx' = idx + 1
          /\ UNCHANGED <<calls, result>>]_vars

\* After two archived repositories in a row the request has made three
\* queries and handed the page of the third repository to collectData.
C18_Witness ==
  /\ pc = "collectDataResume"
  /\ Len(world[organizations[idx]]) = 3
  /\ world[organizations[idx]][1].status = "archived"
  /\ world[organizations[idx]][2].status = "archived"
  /\ args.repositoriesCursor = Undefined
  /\ calls = <<OrganizationCall(organizations[idx], Null, Null),
               OrganizationCall(organizations[idx], Null, 1),
               OrganizationCall(organizations[idx], Null, 2)>>
  /\ data.nodes # <<>>
  /\ data.nodes[1].name = 3

====
